---------------------------- MODULE Spec2Model ----------------------------
(***************************************************************************)
(* Model of the stock research system's deterministic core:               *)
(*   - calculate_risk_score (src/main.py), the tiered risk scorer;         *)
(*   - analyze_stock (src/analyse_stock.py), the metrics calculator and    *)
(*     the five chart writes it makes through matplotlib's pyplot, whose   *)
(*     "current figure" is one process-wide registry shared by all calls.  *)
(*                                                                         *)
(* Numbers.  Python floats are modelled as exact rationals plus the three  *)
(* IEEE specials: a number is a record [k, n, d] with k one of "fin",      *)
(* "nan", "inf", "ninf" and n/d a fraction in lowest terms (d > 0).        *)
(* Quantities behind a square root (standard deviation, volatility,        *)
(* Sharpe ratio) are carried as sign classes (SgnNaN, SgnZero, ...): the   *)
(* model is exact about WHICH of nan / 0 / finite / infinite they are.     *)
(***************************************************************************)
EXTENDS Integers, Sequences, FiniteSets, TLC

\* ------------------------------------------------------------------ bounds

\* alpha ranges over k/100 for k in -MaxAlpha..MaxAlpha, and NaN
MaxAlpha == 10
\* beta ranges over k/10 for k in 0..MaxBeta, and NaN
MaxBeta == 18
\* r_squared ranges over 10*k for k in 0..MaxRSq, and NaN
MaxRSq == 10
\* closes range over 1..MaxPrice
MaxPrice == 3
\* two concurrent calls are explored up to this many preemptions
MaxSwitches == 3
\* the dated series have at most MaxBars bars
MaxBars == 3
\* and up to MaxBefore of their bars are dated before January 1
MaxBefore == 3
\* the tracker is followed for up to MaxCalls calls of each agent
MaxCalls == 3
\* and the clock up to MaxClock ticks
MaxClock == 2

\* ----------------------------------------------------------------- numbers

RECURSIVE GCD(_, _)
GCD(a, b) == IF b = 0 THEN a ELSE GCD(b, a % b)

Abs(x) == IF x < 0 THEN -x ELSE x

\* the fraction n/d (d # 0) in lowest terms with a positive denominator
Rat(n, d) ==
    LET g == GCD(Abs(n), Abs(d))
        s == IF d < 0 THEN -1 ELSE 1
    IN  [k |-> "fin", n |-> s * (n \div g), d |-> s * (d \div g)]

NaN == [k |-> "nan", n |-> 0, d |-> 1]
PosInf == [k |-> "inf", n |-> 1, d |-> 1]
NegInf == [k |-> "ninf", n |-> -1, d |-> 1]

IsFin(x) == x.k = "fin"
\* pd.notna / not math.isnan
NotNa(x) == x.k # "nan"

\* IEEE comparisons: every comparison with NaN is false
Lt(x, y) == IsFin(x) /\ IsFin(y) /\ x.n * y.d < y.n * x.d
Gt(x, y) == Lt(y, x)
Eq(x, y) == IsFin(x) /\ IsFin(y) /\ x.n * y.d = y.n * x.d
Le(x, y) == Lt(x, y) \/ Eq(x, y)
Ge(x, y) == Le(y, x)

LCM(a, b) == (a \div GCD(a, b)) * b

\* IEEE arithmetic on finite operands and NaN (NaN propagates); denominators
\* are combined through their least common multiple to keep the integers small
Add(x, y) ==
    IF ~IsFin(x) \/ ~IsFin(y) THEN NaN
    ELSE LET l == LCM(x.d, y.d)
         IN  Rat(x.n * (l \div x.d) + y.n * (l \div y.d), l)

Neg(x) == IF IsFin(x) THEN Rat(-x.n, x.d) ELSE NaN
Sub(x, y) == Add(x, Neg(y))

Mul(x, y) ==
    IF ~IsFin(x) \/ ~IsFin(y) THEN NaN
    ELSE LET g1 == GCD(Abs(x.n), y.d)
             g2 == GCD(Abs(y.n), x.d)
         IN  Rat((x.n \div g1) * (y.n \div g2), (x.d \div g2) * (y.d \div g1))

\* numpy float64 division: x/0 is +-inf, 0/0 is nan (a RuntimeWarning, no raise)
Div(x, y) ==
    IF ~IsFin(x) \/ ~IsFin(y) THEN NaN
    ELSE IF y.n = 0
         THEN (IF x.n > 0 THEN PosInf ELSE IF x.n < 0 THEN NegInf ELSE NaN)
         ELSE Mul(x, Rat(y.d, y.n))

\* Sign classes of the quantities that sit behind a square root
SgnNaN == "nan"
SgnZero == "zero"
SgnPos == "pos"
SgnNeg == "neg"
SgnInf == "inf"
SgnNegInf == "-inf"

Sgn(x) ==
    IF x.k = "nan" THEN SgnNaN
    ELSE IF x.k = "inf" THEN SgnInf
    ELSE IF x.k = "ninf" THEN SgnNegInf
    ELSE IF x.n > 0 THEN SgnPos
    ELSE IF x.n < 0 THEN SgnNeg
    ELSE SgnZero

SgnFlip(a) ==
    CASE a = SgnPos -> SgnNeg
      [] a = SgnNeg -> SgnPos
      [] a = SgnInf -> SgnNegInf
      [] a = SgnNegInf -> SgnInf
      [] OTHER -> a

\* a * b for a finite b > 0 (np.sqrt(252))
SgnTimesPos(a) == a

\* a / b on float64: finite/0 is +-inf, 0/0 and anything with nan is nan
SgnDiv(a, b) ==
    IF a = SgnNaN \/ b = SgnNaN THEN SgnNaN
    ELSE IF b = SgnZero
         THEN (IF a \in {SgnPos, SgnInf} THEN SgnInf
               ELSE IF a \in {SgnNeg, SgnNegInf} THEN SgnNegInf
               ELSE SgnNaN)
    ELSE IF b = SgnPos THEN a
    ELSE IF b = SgnNeg THEN SgnFlip(a)
    ELSE IF a \in {SgnInf, SgnNegInf} THEN SgnNaN
    ELSE SgnZero

\* ------------------------------------------------- pandas Series operations
\* A Series is a sequence; hist["Close"] is a sequence of positive integers
\* (closes in whole currency units), every derived Series a sequence of numbers.

\* Every pass over a Series below is the library's left-to-right loop; it is
\* written as a fold over the index range lo..hi that splits the range in two,
\* so that the evaluation depth stays logarithmic in the length.

\* TLC evaluates a LET definition when it is first needed; Forced(v) is TRUE and
\* makes the left half's result be computed before the right half starts.
Forced(v) == v = v

\* a window that also keeps the bar just before it (an off-by-one removal)
MutRollingMeanStep(s, w, i, st) ==
    LET added == st.sum_x + s[i]
        now == IF i > w + 1 THEN added - s[i - w - 1] ELSE added
        nobs == IF i > w THEN w ELSE i
    IN  [sum_x |-> now,
         out |-> Append(st.out, IF nobs >= w THEN Rat(now, nobs) ELSE NaN)]

\* Series.rolling(window=w).mean() with the default min_periods = w, as pandas
\* computes it: one pass that adds the entering value to a running sum and
\* removes the leaving one; the entry is NaN until w observations are in.
RollingMeanStep(s, w, i, st) ==
    LET added == st.sum_x + s[i]
        now == IF i > w THEN added - s[i - w] ELSE added
        nobs == IF i > w THEN w ELSE i
    IN  [sum_x |-> now,
         out |-> Append(st.out, IF nobs >= w THEN Rat(now, nobs) ELSE NaN)]

RECURSIVE RollingMeanFold(_, _, _, _, _)
RollingMeanFold(s, w, lo, hi, st) ==
    IF lo > hi THEN st
    ELSE IF lo = hi THEN RollingMeanStep(s, w, lo, st)
    ELSE LET mid == (lo + hi) \div 2
             left == RollingMeanFold(s, w, lo, mid, st)
         IN  IF Forced(left) THEN RollingMeanFold(s, w, mid + 1, hi, left) ELSE st

RollingMean(s, w) ==
    RollingMeanFold(s, w, 1, Len(s), [sum_x |-> 0, out |-> <<>>]).out

\* Series.iloc[-1] of a non-empty Series
ILocLast(s) == s[Len(s)]

\* Series.pct_change(): NaN at the first bar, close[i]/close[i-1] - 1 after it
PctChange(s) ==
    [i \in 1..Len(s) |->
        IF i = 1 THEN NaN
        ELSE Sub(Div(Rat(s[i], 1), Rat(s[i - 1], 1)), Rat(1, 1))]

\* Series.dropna()
DropNa(xs) == SelectSeq(xs, NotNa)

RECURSIVE SumFold(_, _, _, _)
SumFold(xs, lo, hi, acc) ==
    IF lo > hi THEN acc
    ELSE IF lo = hi THEN Add(acc, xs[lo])
    ELSE LET mid == (lo + hi) \div 2
             left == SumFold(xs, lo, mid, acc)
         IN  IF Forced(left) THEN SumFold(xs, mid + 1, hi, left) ELSE acc

\* Series.mean(): NaN for an empty Series
Mean(xs) ==
    IF Len(xs) = 0 THEN NaN
    ELSE Div(SumFold(xs, 1, Len(xs), Rat(0, 1)), Rat(Len(xs), 1))

\* Series.std() (ddof = 1) as a sign class: NaN below two observations, 0
\* exactly when every observation equals the mean, positive otherwise
Std(xs) ==
    IF Len(xs) < 2 THEN SgnNaN
    ELSE LET avg == Mean(xs)
         IN  IF \A i \in 1..Len(xs) : Eq(xs[i], avg) THEN SgnZero ELSE SgnPos

RECURSIVE CumProdFold(_, _, _, _)
CumProdFold(xs, lo, hi, out) ==
    IF lo > hi THEN out
    ELSE IF lo = hi
         THEN Append(out, IF lo = 1 THEN xs[1] ELSE Mul(out[lo - 1], xs[lo]))
    ELSE LET mid == (lo + hi) \div 2
             left == CumProdFold(xs, lo, mid, out)
         IN  IF Forced(left) THEN CumProdFold(xs, mid + 1, hi, left) ELSE out

\* Series.cumprod()
CumProd(xs) == CumProdFold(xs, 1, Len(xs), <<>>)

RECURSIVE ExpandingMaxFold(_, _, _, _)
ExpandingMaxFold(xs, lo, hi, out) ==
    IF lo > hi THEN out
    ELSE IF lo = hi
         THEN Append(out, IF lo = 1 \/ Gt(xs[lo], out[lo - 1])
                          THEN xs[lo] ELSE out[lo - 1])
    ELSE LET mid == (lo + hi) \div 2
             left == ExpandingMaxFold(xs, lo, mid, out)
         IN  IF Forced(left) THEN ExpandingMaxFold(xs, mid + 1, hi, left) ELSE out

\* Series.expanding().max()
ExpandingMax(xs) == ExpandingMaxFold(xs, 1, Len(xs), <<>>)

RECURSIVE MinFold(_, _, _, _)
MinFold(xs, lo, hi, acc) ==
    IF lo > hi THEN acc
    ELSE IF lo = hi THEN (IF Lt(xs[lo], acc) THEN xs[lo] ELSE acc)
    ELSE LET mid == (lo + hi) \div 2
             left == MinFold(xs, lo, mid, acc)
         IN  IF Forced(left) THEN MinFold(xs, mid + 1, hi, left) ELSE acc

\* the last element where the smallest is meant
MutSeriesMin(xs) == IF Len(xs) = 0 THEN NaN ELSE xs[Len(xs)]

\* Series.min(): NaN for an empty Series
SeriesMin(xs) == IF Len(xs) = 0 THEN NaN ELSE MinFold(xs, 2, Len(xs), xs[1])

\* ---------------------------------------------------- analyze_stock, metrics

\* windows of the two moving averages
Ma50Window == 50
Ma200Window == 200

\* hist["Close"].rolling(window=50).mean() and ...(window=200).mean()
Ma50Series(close) == RollingMean(close, Ma50Window)
Ma200Series(close) == RollingMean(close, Ma200Window)

\* the branch on ma_50 < ma_200 lost, so a falling average reads as Neutral
MutTrend(ma_50, ma_200) ==
    IF NotNa(ma_50) /\ NotNa(ma_200)
    THEN (IF Gt(ma_50, ma_200) THEN "Upward" ELSE "Neutral")
    ELSE "Insufficient data for trend analysis"

\* Determine trend
Trend(ma_50, ma_200) ==
    IF NotNa(ma_50) /\ NotNa(ma_200)
    THEN (IF Gt(ma_50, ma_200) THEN "Upward"
          ELSE IF Lt(ma_50, ma_200) THEN "Downward"
          ELSE "Neutral")
    ELSE "Insufficient data for trend analysis"

\* datetime(end_date.year, 1, 1, tzinfo=UTC): bar dates are counted in days
\* from January 1 of the year the call runs in, so ytd_start is day 0
ytd_start == 0

\* hist.loc[start:] with the rows before the start kept (a strict comparison)
MutLocFrom(idx, column, start) ==
    LET skipped == Cardinality({i \in 1..Len(idx) : idx[i] <= start})
    IN  SubSeq(column, skipped + 1, Len(column))

\* hist.loc[start:]: a label slice of an ascending index keeps the rows whose
\* label is at or after the start
LocFrom(idx, column, start) ==
    LET skipped == Cardinality({i \in 1..Len(idx) : idx[i] < start})
    IN  SubSeq(column, skipped + 1, Len(column))

\* Calculate YTD price change and percent change
YtdChange(idx, close) ==
    LET ytd_data == LocFrom(idx, close, ytd_start)
    IN  IF ytd_data # <<>>
        THEN LET price_change ==
                     Sub(Rat(ILocLast(ytd_data), 1), Rat(ytd_data[1], 1))
             IN  [price_change |-> price_change,
                  percent_change |->
                      Mul(Div(price_change, Rat(ytd_data[1], 1)), Rat(100, 1))]
        ELSE [price_change |-> NaN, percent_change |-> NaN]

\* drawdown = (cumulative_returns - running_max) / running_max
Drawdown(daily_returns) ==
    LET cumulative_returns ==
            CumProd([i \in 1..Len(daily_returns) |->
                        Add(Rat(1, 1), daily_returns[i])])
        running_max == ExpandingMax(cumulative_returns)
    IN  [i \in 1..Len(daily_returns) |->
            Div(Sub(cumulative_returns[i], running_max[i]), running_max[i])]

\* risk_free_rate / 252 with risk_free_rate = 0.02
DailyRiskFree == Rat(2, 100 * 252)

\* the local variables of analyze_stock from "Compute basic statistics" down to
\* the rolling Sharpe ratio, for a non-empty hist
Metrics(close) ==
    LET ma_50 == ILocLast(Ma50Series(close))
        ma_200 == ILocLast(Ma200Series(close))
        daily_returns == DropNa(PctChange(close))
        excess_returns ==
            [i \in 1..Len(daily_returns) |-> Sub(daily_returns[i], DailyRiskFree)]
    IN  [current_price |-> Rat(ILocLast(close), 1),
         ma_50 |-> ma_50,
         ma_200 |-> ma_200,
         trend |-> Trend(ma_50, ma_200),
         daily_returns |-> daily_returns,
         volatility |-> SgnTimesPos(Std(daily_returns)),
         drawdown |-> Drawdown(daily_returns),
         sharpe_ratio |->
             SgnDiv(SgnTimesPos(Sgn(Mean(excess_returns))), Std(daily_returns))]

\* ------------------------------------------------------------- risk scorer

\* the last tier given the points of the tier before it
MutAlphaContribution(alpha) ==
    IF Lt(alpha, Rat(-5, 100)) THEN 20
    ELSE IF Lt(alpha, Rat(0, 1)) THEN 10
    ELSE IF Gt(alpha, Rat(5, 100)) THEN 5
    ELSE 10

\* risk_score += ... for alpha (20% weight)
AlphaContribution(alpha) ==
    IF Lt(alpha, Rat(-5, 100)) THEN 20
    ELSE IF Lt(alpha, Rat(0, 1)) THEN 10
    ELSE IF Gt(alpha, Rat(5, 100)) THEN 5
    ELSE 8

\* a comparison written >= where the code has >
MutBetaContribution(beta) ==
    IF Gt(beta, Rat(15, 10)) THEN 40
    ELSE IF Ge(beta, Rat(12, 10)) THEN 30
    ELSE IF Gt(beta, Rat(8, 10)) THEN 20
    ELSE 15

\* risk_score += ... for beta (40% weight)
BetaContribution(beta) ==
    IF Gt(beta, Rat(15, 10)) THEN 40
    ELSE IF Gt(beta, Rat(12, 10)) THEN 30
    ELSE IF Gt(beta, Rat(8, 10)) THEN 20
    ELSE 15

\* the two middle tiers' points exchanged
MutRSquaredContribution(r_squared) ==
    IF Lt(r_squared, Rat(30, 1)) THEN 40
    ELSE IF Lt(r_squared, Rat(50, 1)) THEN 20
    ELSE IF Lt(r_squared, Rat(70, 1)) THEN 30
    ELSE 15

\* risk_score += ... for r_squared (40% weight)
RSquaredContribution(r_squared) ==
    IF Lt(r_squared, Rat(30, 1)) THEN 40
    ELSE IF Lt(r_squared, Rat(50, 1)) THEN 30
    ELSE IF Lt(r_squared, Rat(70, 1)) THEN 20
    ELSE 15

\* a classification written > where the code has >=
MutRiskLevel(risk_score) ==
    IF risk_score > 70 THEN "HIGH"
    ELSE IF risk_score >= 50 THEN "MEDIUM"
    ELSE "LOW"

\* Risk level classification
RiskLevel(risk_score) ==
    IF risk_score >= 70 THEN "HIGH"
    ELSE IF risk_score >= 50 THEN "MEDIUM"
    ELSE "LOW"

\* the returned dictionary (the interpretation strings are left out)
calculate_risk_score(alpha, beta, r_squared) ==
    LET risk_score == 0 + AlphaContribution(alpha) + BetaContribution(beta)
                        + RSquaredContribution(r_squared)
    IN  [overall_risk_score |-> risk_score,
         risk_level |-> RiskLevel(risk_score),
         alpha_contribution |->
             IF Lt(alpha, Rat(-5, 100)) THEN "High risk"
             ELSE IF Lt(alpha, Rat(0, 1)) THEN "Moderate risk" ELSE "Low risk",
         beta_contribution |->
             IF Gt(beta, Rat(15, 10)) THEN "High risk"
             ELSE IF Gt(beta, Rat(12, 10)) THEN "Moderate risk" ELSE "Low risk",
         r_squared_contribution |->
             IF Lt(r_squared, Rat(30, 1)) THEN "High risk"
             ELSE IF Lt(r_squared, Rat(50, 1)) THEN "Moderate risk" ELSE "Low risk"]

\* the arguments a caller (the risk_calculation_tool) may pass
Alphas == {Rat(k, 100) : k \in -MaxAlpha..MaxAlpha} \cup {NaN}
Betas == {Rat(k, 10) : k \in 0..MaxBeta} \cup {NaN}
RSquareds == {Rat(10 * k, 1) : k \in 0..MaxRSq} \cup {NaN}

NoArgs == [alpha |-> NaN, beta |-> NaN, r_squared |-> NaN]
NoAssessment ==
    [overall_risk_score |-> 0, risk_level |-> "", alpha_contribution |-> "",
     beta_contribution |-> "", r_squared_contribution |-> ""]

\* ------------------------------------------------------------------- state

\* the two analyze_stock calls (threads of one process), one ticker each
Calls == {1, 2}
Ticker(t) == IF t = 1 THEN "AAA" ELSE "BBB"

\* the five charts, in the order the code writes them, and the result keys
ChartKind == <<"stockprice", "volatility", "drawdown", "sharpe_ratio", "dashboard">>
ChartKey == <<"plot_file_path", "volatility_chart_path", "drawdown_chart_path",
              "sharpe_chart_path", "dashboard_chart_path">>
NumCharts == Len(ChartKind)

\* f"stock_charts/{ticker}_{kind}.png"
ChartPath(ticker, c) == <<"stock_charts", ticker, ChartKind[c]>>
Paths == {ChartPath(Ticker(t), c) : t \in Calls, c \in 1..NumCharts}

VARIABLES
    risk_pc,        \* "off" | "idle" | "called" | "returned": the risk tool
    risk_args,      \* the arguments of the calculate_risk_score call
    assessment,     \* the dictionary the call returned
    feed,           \* the price series stock.history() may return
    calendar,       \* the ways the bars of a series may be dated
    index,          \* per call: hist.index, the bars' dates
    pc,             \* per call: its position in analyze_stock
    chart,          \* per call: the chart (1..5) it is working on, 0 before
    hist,           \* per call: hist["Close"]
    m,              \* per call: the local variables of the metrics part
    result,         \* per call: the result dictionary
    exc,            \* per call: the exception that ended it, "" if none
    lines,          \* per call: the curves plotted on the price chart
    dash,           \* per call: the figure plt.subplots() returned
    figs,           \* pyplot's registry of open figures; the last is current
    files,          \* the chart files on disk
    chart_dir,      \* whether stock_charts/ exists
    gil,            \* the call whose thread holds the interpreter lock
    switches,       \* how often a running thread was preempted so far
    metrics,        \* performance_tracker.metrics: agent name -> AgentMetrics
    clock,          \* the last reading of time.time()
    pending,        \* the agents whose call was started and has not ended
    started,        \* per agent: the start_call invocations so far
    succeeded       \* per agent: the end_call(success=True) invocations so far

risk_vars == <<risk_pc, risk_args, assessment>>
call_vars == <<feed, calendar, index, pc, chart, hist, m, result, exc, lines, dash>>
plt_vars == <<figs, files, chart_dir>>
sched_vars == <<gil, switches>>
tracker_vars == <<metrics, clock, pending, started, succeeded>>
vars == <<risk_vars, call_vars, plt_vars, sched_vars, tracker_vars>>

NoMetrics ==
    [current_price |-> NaN, ma_50 |-> NaN, ma_200 |-> NaN, trend |-> "",
     daily_returns |-> <<>>, volatility |-> SgnNaN, drawdown |-> <<>>,
     sharpe_ratio |-> SgnNaN, price_change |-> NaN, percent_change |-> NaN]
NoResult == [pending |-> TRUE]
NoLines == [close |-> <<>>, ma_50 |-> <<>>, ma_200 |-> <<>>]
NoFigure == <<0, 0, "">>
NoFile == [written |-> FALSE, art |-> {}]

\* ------------------------------------------------------------- risk scorer

\* the agents the tracker is called for
Names == {"Team_Analysis", "Technical_Analyst"}

\* AgentMetrics(name=agent_name): the dataclass defaults
AgentMetrics(agent_name) ==
    [name |-> agent_name, calls |-> 0, total_time |-> 0,
     success_rate |-> Rat(0, 1), last_call |-> 0]

\* performance_tracker = AgentPerformanceTracker(): no metrics yet
InitTracker ==
    /\ metrics = <<>>
    /\ clock = 0
    /\ pending = {}
    /\ started = [name \in Names |-> 0]
    /\ succeeded = [name \in Names |-> 0]

InitRiskIdle ==
    /\ risk_args = NoArgs
    /\ assessment = NoAssessment

InitCalls(positions, series, calendars) ==
    /\ feed = series
    /\ calendar = calendars
    /\ index = [t \in Calls |-> <<>>]
    /\ pc = positions
    /\ chart = [t \in Calls |-> 0]
    /\ hist = [t \in Calls |-> <<>>]
    /\ m = [t \in Calls |-> NoMetrics]
    /\ result = [t \in Calls |-> NoResult]
    /\ exc = [t \in Calls |-> ""]
    /\ lines = [t \in Calls |-> NoLines]
    /\ dash = [t \in Calls |-> NoFigure]
    /\ figs = <<>>
    /\ files = [p \in Paths |-> NoFile]
    /\ chart_dir = FALSE
    /\ switches = 0

\* the caller (the risk_calculation_tool) invokes the function with any floats
RiskCall ==
    /\ risk_pc = "idle"
    /\ \E a \in Alphas, b \in Betas, r \in RSquareds :
          risk_args' = [alpha |-> a, beta |-> b, r_squared |-> r]
    /\ risk_pc' = "called"
    /\ UNCHANGED <<assessment, call_vars, plt_vars, sched_vars, tracker_vars>>

\* the body of calculate_risk_score, to its return
RiskReturn ==
    /\ risk_pc = "called"
    /\ assessment' = calculate_risk_score(risk_args.alpha, risk_args.beta,
                                          risk_args.r_squared)
    /\ risk_pc' = "returned"
    /\ UNCHANGED <<risk_args, call_vars, plt_vars, sched_vars, tracker_vars>>

InitRisk ==
    /\ InitTracker
    /\ risk_pc = "idle"
    /\ gil = 1
    /\ InitRiskIdle
    /\ InitCalls([t \in Calls |-> "idle"], {}, {})

NextRisk == RiskCall \/ RiskReturn

\* calculate_risk_score called once with arguments drawn from the grids
SpecRisk == InitRisk /\ [][NextRisk]_vars

\* ----------------------------------------------------------- analyze_stock

\* pyplot's gcf(): the current figure is the registry's last; with none open, a
\* new one is created on the spot (named after the call and step that needed it)
Gcf(t, step) ==
    IF Len(figs) > 0 THEN figs
    ELSE <<[id |-> <<t, chart[t], step>>, art |-> {}]>>

\* the registry after something is drawn on its current figure
DrawOnCurrent(reg, mark) ==
    [reg EXCEPT ![Len(reg)].art = @ \cup {mark}]

\* what one call draws for its chart c: its curves, title, labels, legend
Mark(t, c) == <<Ticker(t), ChartKind[c]>>

\* CPython runs one thread at a time: call t takes its next step if its thread
\* holds the interpreter lock, or takes the lock over, which preempts the
\* holder unless the holder's call is over
Over(t) == pc[t] \in {"idle", "returned", "raised"}
Scheduled(t) ==
    /\ ~Over(t)
    /\ gil' = t
    /\ IF gil = t \/ Over(gil)
       THEN switches' = switches
       ELSE switches < MaxSwitches /\ switches' = switches + 1

\* the dates of a series of len bars: consecutive days, the bars before
\* January 1 numbered up to day -1 and the later ones from first_day on
Dates(len, cal) ==
    [i \in 1..len |->
        IF i <= cal.before THEN i - 1 - cal.before
        ELSE i - 1 - cal.before + cal.first_day]

\* stock.history(start=start_date, end=end_date)
Fetch(t) ==
    /\ pc[t] = "start"
    /\ Scheduled(t)
    /\ \E series \in feed, cal \in calendar :
          /\ hist' = [hist EXCEPT ![t] = series]
          /\ index' = [index EXCEPT ![t] = Dates(Len(series), cal)]
    /\ pc' = [pc EXCEPT ![t] = "fetched"]
    /\ UNCHANGED <<risk_vars, tracker_vars, feed, calendar, chart, m, result, exc, lines, dash,
                   plt_vars>>

\* if hist.empty: return {"error": ...}
ReturnError(t) ==
    /\ pc[t] = "fetched"
    /\ Scheduled(t)
    /\ hist[t] = <<>>
    /\ result' = [result EXCEPT ![t] =
                     [error |-> "No historical data available for the specified ticker."]]
    /\ pc' = [pc EXCEPT ![t] = "returned"]
    /\ UNCHANGED <<risk_vars, tracker_vars, feed, calendar, index, chart, hist, m, exc, lines, dash, plt_vars>>

\* the statistics, from the moving averages to the rolling Sharpe ratio
ComputeMetrics(t) ==
    /\ pc[t] = "fetched"
    /\ Scheduled(t)
    /\ hist[t] # <<>>
    /\ m' = [m EXCEPT ![t] = Metrics(hist[t]) @@ YtdChange(index[t], hist[t])]
    /\ pc' = [pc EXCEPT ![t] = "assemble"]
    /\ UNCHANGED <<risk_vars, tracker_vars, feed, calendar, index, chart, hist, result, exc, lines, dash, plt_vars>>

\* "current_drawdown": drawdown.iloc[-1] on an empty drawdown Series: pandas
\* raises IndexError (single positional indexer is out-of-bounds)
RaiseIndexError(t) ==
    /\ pc[t] = "assemble"
    /\ Scheduled(t)
    /\ Len(m[t].drawdown) = 0
    /\ exc' = [exc EXCEPT ![t] = "IndexError"]
    /\ pc' = [pc EXCEPT ![t] = "raised"]
    /\ UNCHANGED <<risk_vars, tracker_vars, feed, calendar, index, chart, hist, m, result, lines, dash, plt_vars>>

\* the result dictionary of the code, before the chart paths are added
ResultDict(t) ==
    ("ticker" :> Ticker(t)) @@ ("current_price" :> m[t].current_price)
    @@ ("50_day_ma" :> m[t].ma_50) @@ ("200_day_ma" :> m[t].ma_200)
    @@ ("ytd_price_change" :> m[t].price_change)
    @@ ("ytd_percent_change" :> m[t].percent_change)
    @@ ("trend" :> m[t].trend) @@ ("volatility" :> m[t].volatility)
    @@ ("sharpe_ratio" :> m[t].sharpe_ratio)
    @@ ("max_drawdown" :> SeriesMin(m[t].drawdown))
    @@ ("current_drawdown" :> ILocLast(m[t].drawdown))

\* Create result dictionary (and convert numpy scalars to Python ones)
Assemble(t) ==
    /\ pc[t] = "assemble"
    /\ Scheduled(t)
    /\ Len(m[t].drawdown) > 0
    /\ result' = [result EXCEPT ![t] = ResultDict(t)]
    /\ pc' = [pc EXCEPT ![t] = "makedirs"]
    /\ UNCHANGED <<risk_vars, tracker_vars, feed, calendar, index, chart, hist, m, exc, lines, dash, plt_vars>>

\* os.makedirs("stock_charts", exist_ok=True)
Makedirs(t) ==
    /\ pc[t] = "makedirs"
    /\ Scheduled(t)
    /\ chart_dir' = TRUE
    /\ chart' = [chart EXCEPT ![t] = 1]
    /\ pc' = [pc EXCEPT ![t] = "figure"]
    /\ UNCHANGED <<risk_vars, tracker_vars, feed, calendar, index, hist, m, result, exc, lines, dash, figs, files>>

\* plt.figure(figsize=(12, 6)): a new figure, registered and made current
Figure(t) ==
    /\ pc[t] = "figure"
    /\ Scheduled(t)
    /\ chart[t] < NumCharts
    /\ figs' = Append(figs, [id |-> <<t, chart[t], "figure">>, art |-> {}])
    /\ pc' = [pc EXCEPT ![t] = "plot"]
    /\ UNCHANGED <<risk_vars, tracker_vars, feed, calendar, index, chart, hist, m, result, exc, lines, dash,
                   files, chart_dir>>

\* plt.plot / fill_between / axhline / title / xlabel / ylabel / legend / grid /
\* tight_layout: each acts on whatever figure is current when it runs
Plot(t) ==
    /\ pc[t] = "plot"
    /\ Scheduled(t)
    /\ figs' = DrawOnCurrent(Gcf(t, "plot"), Mark(t, chart[t]))
    /\ lines' = [lines EXCEPT ![t] =
                    IF chart[t] = 1
                    THEN [close |-> hist[t], ma_50 |-> Ma50Series(hist[t]),
                          ma_200 |-> Ma200Series(hist[t])]
                    ELSE @]
    /\ pc' = [pc EXCEPT ![t] = "savefig"]
    /\ UNCHANGED <<risk_vars, tracker_vars, feed, calendar, index, chart, hist, m, result, exc, dash,
                   files, chart_dir>>

\* fig, ((ax1, ax2), (ax3, ax4)) = plt.subplots(2, 2, figsize=(16, 12))
Subplots(t) ==
    /\ pc[t] = "figure"
    /\ Scheduled(t)
    /\ chart[t] = NumCharts
    /\ figs' = Append(figs, [id |-> <<t, chart[t], "figure">>, art |-> {}])
    /\ dash' = [dash EXCEPT ![t] = <<t, chart[t], "figure">>]
    /\ pc' = [pc EXCEPT ![t] = "axplot"]
    /\ UNCHANGED <<risk_vars, tracker_vars, feed, calendar, index, chart, hist, m, result, exc, lines,
                   files, chart_dir>>

\* ax1.plot ... ax4.grid: drawn on the axes of the figure subplots returned,
\* whichever figure is current (a figure already closed is no longer saved)
AxPlot(t) ==
    /\ pc[t] = "axplot"
    /\ Scheduled(t)
    /\ figs' = [i \in 1..Len(figs) |->
                   IF figs[i].id = dash[t]
                   THEN [figs[i] EXCEPT !.art = @ \cup {Mark(t, chart[t])}]
                   ELSE figs[i]]
    /\ pc' = [pc EXCEPT ![t] = "suptitle"]
    /\ UNCHANGED <<risk_vars, tracker_vars, feed, calendar, index, chart, hist, m, result, exc, lines, dash,
                   files, chart_dir>>

\* plt.suptitle(...); plt.tight_layout(): on the current figure
Suptitle(t) ==
    /\ pc[t] = "suptitle"
    /\ Scheduled(t)
    /\ figs' = DrawOnCurrent(Gcf(t, "suptitle"), Mark(t, chart[t]))
    /\ pc' = [pc EXCEPT ![t] = "savefig"]
    /\ UNCHANGED <<risk_vars, tracker_vars, feed, calendar, index, chart, hist, m, result, exc, lines, dash,
                   files, chart_dir>>

\* plt.savefig(path, dpi=300, bbox_inches='tight'): the current figure goes to
\* the call's own path
Savefig(t) ==
    /\ pc[t] = "savefig"
    /\ Scheduled(t)
    /\ figs' = Gcf(t, "savefig")
    /\ files' = [files EXCEPT ![ChartPath(Ticker(t), chart[t])] =
                    [written |-> TRUE, art |-> figs'[Len(figs')].art]]
    /\ pc' = [pc EXCEPT ![t] = "close"]
    /\ UNCHANGED <<risk_vars, tracker_vars, feed, calendar, index, chart, hist, m, result, exc, lines, dash,
                   chart_dir>>

\* plt.savefig raises and the error is swallowed: the call goes on to plt.close()
MutSavefigFails(t) ==
    /\ pc[t] = "savefig"
    /\ Scheduled(t)
    /\ exc' = [exc EXCEPT ![t] = "OSError"]
    /\ pc' = [pc EXCEPT ![t] = "close"]
    /\ UNCHANGED <<risk_vars, tracker_vars, feed, calendar, index, chart, hist, m, result, lines, dash, plt_vars>>

\* plt.savefig raises (an I/O error): the exception leaves analyze_stock
SavefigFails(t) ==
    /\ pc[t] = "savefig"
    /\ Scheduled(t)
    /\ exc' = [exc EXCEPT ![t] = "OSError"]
    /\ pc' = [pc EXCEPT ![t] = "raised"]
    /\ UNCHANGED <<risk_vars, tracker_vars, feed, calendar, index, chart, hist, m, result, lines, dash, plt_vars>>

\* plt.close() closes the current figure, if any; then the path is recorded in
\* the result and the next chart starts, or the result is returned
Close(t) ==
    /\ pc[t] = "close"
    /\ Scheduled(t)
    /\ figs' = IF Len(figs) > 0 THEN SubSeq(figs, 1, Len(figs) - 1) ELSE figs
    /\ result' = [result EXCEPT ![t] =
                     @ @@ (ChartKey[chart[t]] :> ChartPath(Ticker(t), chart[t]))]
    /\ IF chart[t] < NumCharts
       THEN /\ chart' = [chart EXCEPT ![t] = @ + 1]
            /\ pc' = [pc EXCEPT ![t] = "figure"]
       ELSE /\ chart' = chart
            /\ pc' = [pc EXCEPT ![t] = "returned"]
    /\ UNCHANGED <<risk_vars, tracker_vars, feed, calendar, index, hist, m, exc, lines, dash, files, chart_dir>>

NextCalls ==
    \E t \in Calls :
        \/ Fetch(t)
        \/ ReturnError(t)
        \/ ComputeMetrics(t)
        \/ RaiseIndexError(t)
        \/ Assemble(t)
        \/ Makedirs(t)
        \/ Figure(t)
        \/ Plot(t)
        \/ Subplots(t)
        \/ AxPlot(t)
        \/ Suptitle(t)
        \/ Savefig(t)
        \/ SavefigFails(t)
        \/ Close(t)

\* The price series the history source may return: a head of at most two bars
\* at any prices, then two runs of constant price, the lengths chosen so that
\* the totals sit on both sides of 1, 2, 50 and 200 bars and reach 252.
Run(len, price) == [i \in 1..len |-> price]
Prices == 1..MaxPrice
Heads == {<<>>} \cup {<<p>> : p \in Prices} \cup {<<p, q>> : p \in Prices, q \in Prices}
BodyLens == {0, 48, 198}
TailLens == {0, 52}
AllSeries ==
    {h \o Run(b, p) \o Run(c, q) :
        h \in Heads, b \in BodyLens, p \in Prices, c \in TailLens, q \in Prices}

\* the series two concurrent calls are fed: none, one bar, two bars
ShortSeries == {<<>>, <<1>>, <<1, 2>>}

\* the dated series: every series of at most MaxBars bars
DatedSeries == UNION {[1..len -> Prices] : len \in 0..MaxBars}

\* how a series may be dated: `before` of its bars (all of them, if it has no
\* more) fall before January 1, and the next bar is dated January 1
\* (first_day = 0) or January 2 (first_day = 1)
Calendars == [before : 0..MaxBefore, first_day : {0, 1}]
\* all bars of the series fall in the year of the call, the first on January 2
ThisYear == {[before |-> 0, first_day |-> 1]}

InitAnalyze ==
    /\ InitTracker
    /\ risk_pc = "off"
    /\ gil = 1
    /\ InitRiskIdle
    /\ InitCalls([t \in Calls |-> IF t = 1 THEN "start" ELSE "idle"], AllSeries,
                 ThisYear)

InitDated ==
    /\ InitTracker
    /\ risk_pc = "off"
    /\ gil = 1
    /\ InitRiskIdle
    /\ InitCalls([t \in Calls |-> IF t = 1 THEN "start" ELSE "idle"], DatedSeries,
                 Calendars)

InitThreads ==
    /\ InitTracker
    /\ risk_pc = "off"
    /\ gil \in Calls
    /\ InitRiskIdle
    /\ InitCalls([t \in Calls |-> "start"], ShortSeries, ThisYear)

\* one analyze_stock call, on any series of the family
SpecAnalyze == InitAnalyze /\ [][NextCalls]_vars

\* two analyze_stock calls for different tickers, as threads of one process
SpecThreads == InitThreads /\ [][NextCalls]_vars

\* one analyze_stock call, on any short series dated in any of the ways
SpecDated == InitDated /\ [][NextCalls]_vars

\* ------------------------------------------------ AgentPerformanceTracker

\* time.time(): the clock stands or moves on between two readings
Now == {now \in {clock, clock + 1} : now <= MaxClock}

\* start_call(agent_name), called by main before the team runs
StartCall(agent_name) ==
    /\ agent_name \notin pending
    /\ started[agent_name] < MaxCalls
    /\ \E now \in Now :
          LET known == IF agent_name \in DOMAIN metrics
                       THEN metrics
                       ELSE metrics @@ (agent_name :> AgentMetrics(agent_name))
          IN  /\ metrics' = [known EXCEPT ![agent_name] =
                                [@ EXCEPT !.calls = @ + 1, !.last_call = now]]
              /\ clock' = now
    /\ pending' = pending \cup {agent_name}
    /\ started' = [started EXCEPT ![agent_name] = @ + 1]
    /\ UNCHANGED <<risk_vars, call_vars, plt_vars, sched_vars, succeeded>>

\* the running mean as end_call updates it on a success
SuccessRate(success_rate, calls) ==
    Div(Add(Mul(success_rate, Rat(calls - 1, 1)), Rat(1, 1)), Rat(calls, 1))

\* end_call(agent_name, success), called by main when the team's run has
\* ended (success=True) or raised (success=False)
EndCall(agent_name, success) ==
    /\ agent_name \in pending
    /\ \E now \in Now :
          /\ clock' = now
          /\ IF agent_name \in DOMAIN metrics
             THEN LET duration == now - metrics[agent_name].last_call
                  IN  metrics' = [metrics EXCEPT ![agent_name] =
                          [@ EXCEPT !.total_time = @ + duration,
                                    !.success_rate =
                                        IF success
                                        THEN SuccessRate(@, metrics[agent_name].calls)
                                        ELSE @]]
             ELSE metrics' = metrics
    /\ pending' = pending \ {agent_name}
    /\ succeeded' = IF success THEN [succeeded EXCEPT ![agent_name] = @ + 1]
                    ELSE succeeded
    /\ UNCHANGED <<risk_vars, call_vars, plt_vars, sched_vars, started>>

NextTracker ==
    \E agent_name \in Names :
        \/ StartCall(agent_name)
        \/ \E success \in BOOLEAN : EndCall(agent_name, success)

InitTracked ==
    /\ risk_pc = "off"
    /\ gil = 1
    /\ InitRiskIdle
    /\ InitCalls([t \in Calls |-> "idle"], {}, {})
    /\ InitTracker

\* start_call / end_call pairs for the agents, in any interleaving
SpecTracker == InitTracked /\ [][NextTracker]_vars

\* ------------------------------------------------- claims: the risk scorer

Returned == risk_pc = "returned"
Score == assessment.overall_risk_score

\* The tier table as the specification prints it, read off the grid's integer
\* units: alpha in hundredths, beta in tenths, r_squared in units; NaN satisfies
\* none of the listed comparisons and lands in each factor's last row.
Hundredths(x) == (x.n * 100) \div x.d
TableAlpha(x) ==
    IF x.k = "nan" THEN 8
    ELSE IF Hundredths(x) < -5 THEN 20
    ELSE IF Hundredths(x) < 0 THEN 10
    ELSE IF Hundredths(x) > 5 THEN 5
    ELSE 8
TableBeta(x) ==
    IF x.k = "nan" THEN 15
    ELSE IF Hundredths(x) > 150 THEN 40
    ELSE IF Hundredths(x) > 120 THEN 30
    ELSE IF Hundredths(x) > 80 THEN 20
    ELSE 15
TableRSquared(x) ==
    IF x.k = "nan" THEN 15
    ELSE IF Hundredths(x) < 3000 THEN 40
    ELSE IF Hundredths(x) < 5000 THEN 30
    ELSE IF Hundredths(x) < 7000 THEN 20
    ELSE 15

ArgsAre(a, b, r) ==
    risk_args = [alpha |-> a, beta |-> b, r_squared |-> r]

\* C2: for every input the returned overall_risk_score is the sum of exactly
\* one tier-table contribution per factor, hence within 0..100; the two worked
\* examples give 100 and 35.
C2_ScoreIsTierSum ==
    Returned =>
        /\ Score = TableAlpha(risk_args.alpha) + TableBeta(risk_args.beta)
                     + TableRSquared(risk_args.r_squared)
        /\ Score \in 0..100
        /\ ArgsAre(Rat(-1, 10), Rat(18, 10), Rat(20, 1)) => Score = 100
        /\ ArgsAre(Rat(1, 10), Rat(5, 10), Rat(80, 1)) => Score = 35

C2_Witness ==
    /\ Returned
    /\ ArgsAre(Rat(-1, 10), Rat(18, 10), Rat(20, 1))
    /\ Score = 100

\* what one factor contributed to the returned score
AlphaPoints ==
    Score - TableBeta(risk_args.beta) - TableRSquared(risk_args.r_squared)
BetaPoints ==
    Score - TableAlpha(risk_args.alpha) - TableRSquared(risk_args.r_squared)
RSquaredPoints ==
    Score - TableAlpha(risk_args.alpha) - TableBeta(risk_args.beta)

FewerPoints(a, b) == IF a < b THEN a ELSE b

\* the eight thresholds at which the equal-to-threshold rule does hold
ThresholdsOtherThanAlphaHigh ==
    /\ risk_args.alpha = Rat(-5, 100) => AlphaPoints = FewerPoints(20, 10)
    /\ risk_args.alpha = Rat(0, 1) => AlphaPoints = FewerPoints(10, 8)
    /\ risk_args.beta = Rat(8, 10) => BetaPoints = FewerPoints(15, 20)
    /\ risk_args.beta = Rat(12, 10) => BetaPoints = FewerPoints(20, 30)
    /\ risk_args.beta = Rat(15, 10) => BetaPoints = FewerPoints(30, 40)
    /\ risk_args.r_squared = Rat(30, 1) => RSquaredPoints = FewerPoints(40, 30)
    /\ risk_args.r_squared = Rat(50, 1) => RSquaredPoints = FewerPoints(30, 20)
    /\ risk_args.r_squared = Rat(70, 1) => RSquaredPoints = FewerPoints(20, 15)

\* C3 as stated: at every one of the nine thresholds the input equal to the
\* threshold gets the fewer points of the two adjacent tiers.
C3_EveryThresholdLowerRisk ==
    Returned =>
        /\ ThresholdsOtherThanAlphaHigh
        /\ risk_args.alpha = Rat(5, 100) => AlphaPoints = FewerPoints(8, 5)

\* C3 as amended: the rule holds at every threshold except alpha = 0.05, where
\* the input gets 8, the more points of the two adjacent tiers (8 and 5).
C3_ThresholdTiers ==
    Returned =>
        /\ ThresholdsOtherThanAlphaHigh
        /\ risk_args.alpha = Rat(5, 100) => AlphaPoints = 8

C3_Witness ==
    /\ Returned
    /\ ArgsAre(Rat(5, 100), Rat(12, 10), Rat(50, 1))
    /\ Score = 8 + 20 + 20

\* C4: risk_level is HIGH iff score >= 70, MEDIUM iff 50 <= score < 70, LOW iff
\* score < 50.
C4_LevelMatchesScore ==
    Returned =>
        /\ assessment.risk_level = "HIGH" <=> Score >= 70
        /\ assessment.risk_level = "MEDIUM" <=> (50 <= Score /\ Score < 70)
        /\ assessment.risk_level = "LOW" <=> Score < 50

C4_Witness ==
    /\ Returned
    /\ Score = 70
    /\ assessment.risk_level = "HIGH"

ScoreAt(a, b, r) == calculate_risk_score(a, b, r).overall_risk_score

\* C5: at the call's alpha, the returned score is no more than the score of
\* any call with a beta at least as large (r_squared kept), and no less than
\* the score of any call with an r_squared at least as large (beta kept).
C5_Monotonic ==
    Returned =>
        /\ \A b2 \in Betas :
              Le(risk_args.beta, b2) =>
                  Score <= ScoreAt(risk_args.alpha, b2, risk_args.r_squared)
        /\ \A r2 \in RSquareds :
              Le(risk_args.r_squared, r2) =>
                  Score >= ScoreAt(risk_args.alpha, risk_args.beta, r2)

C5_Witness ==
    /\ Returned
    /\ \E b2 \in Betas :
          /\ Lt(risk_args.beta, b2)
          /\ Score < ScoreAt(risk_args.alpha, b2, risk_args.r_squared)
    /\ \E r2 \in RSquareds :
          /\ Lt(risk_args.r_squared, r2)
          /\ Score > ScoreAt(risk_args.alpha, risk_args.beta, r2)

\* ------------------------------------------------- claims: analyze_stock

\* the call has passed the statistics (its local variables are set)
Computed(t) == pc[t] \notin {"idle", "start", "fetched"} /\ hist[t] # <<>>
\* the call has built its result dictionary
Reported(t) == "trend" \in DOMAIN result[t]

\* C1: the empty series is the only input on which analyze_stock fails: an
\* empty series gives the error outcome, and on every non-empty series, a
\* single bar included, the statistics never raise and a result record is
\* built (its unavailable statistics undefined).
C1_OnlyEmptySeriesFails ==
    \A t \in Calls :
        /\ "error" \in DOMAIN result[t] => hist[t] = <<>>
        /\ pc[t] = "returned" /\ hist[t] = <<>> => "error" \in DOMAIN result[t]
        /\ hist[t] # <<>> => exc[t] # "IndexError"
        /\ Computed(t) /\ pc[t] \notin {"assemble", "raised"} => Reported(t)

\* the case of C7: at least 200 bars, all at one close
ConstantSeries(t) ==
    /\ Len(hist[t]) >= Ma200Window
    /\ \A i \in 1..Len(hist[t]) : hist[t][i] = hist[t][1]

\* C7: when the standard deviation of the daily returns is zero (a long
\* series of identical closes), the reported volatility and sharpe_ratio are
\* both undefined, every drawdown value is 0 and the trend is Neutral.
C7_ZeroStdIsUndefined ==
    \A t \in Calls :
        Reported(t) /\ ConstantSeries(t) =>
            /\ result[t]["volatility"] = SgnNaN
            /\ result[t]["sharpe_ratio"] = SgnNaN
            /\ \A i \in 1..Len(m[t].drawdown) : m[t].drawdown[i] = Rat(0, 1)
            /\ result[t]["max_drawdown"] = Rat(0, 1)
            /\ result[t]["current_drawdown"] = Rat(0, 1)
            /\ result[t]["trend"] = "Neutral"

\* comparison of two defined numbers by cross-multiplication
Above(x, y) == x.n * y.d > y.n * x.d
Defined(x) == x.k = "fin"

\* C8: for every non-empty series the trend is Upward iff the 50-day MA is
\* greater than the 200-day MA, Downward iff smaller, Neutral iff equal, and
\* the insufficient-data value iff one of the two is undefined, in particular
\* whenever the series has fewer than 200 bars; the result reports that trend.
C8_TrendMatchesAverages ==
    \A t \in Calls :
        Computed(t) =>
            LET a == m[t].ma_50
                b == m[t].ma_200
                both == Defined(a) /\ Defined(b)
            IN  /\ m[t].trend = "Upward" <=> (both /\ Above(a, b))
                /\ m[t].trend = "Downward" <=> (both /\ Above(b, a))
                /\ m[t].trend = "Neutral"
                       <=> (both /\ ~Above(a, b) /\ ~Above(b, a))
                /\ m[t].trend = "Insufficient data for trend analysis" <=> ~both
                /\ Len(hist[t]) < 200
                       => m[t].trend = "Insufficient data for trend analysis"
                /\ Reported(t) =>
                       /\ result[t]["trend"] = m[t].trend
                       /\ result[t]["50_day_ma"] = a
                       /\ result[t]["200_day_ma"] = b

C8_Witness ==
    \E t \in Calls :
        /\ pc[t] = "returned"
        /\ Reported(t)
        /\ result[t]["trend"] = "Downward"
        /\ Above(result[t]["200_day_ma"], result[t]["50_day_ma"])

\* C9: for every series with at least one daily return, every drawdown value
\* is <= 0, the reported max_drawdown is the minimum of the drawdown sequence
\* and the reported current_drawdown is its last value.
C9_DrawdownSummary ==
    \A t \in Calls :
        Reported(t) /\ Len(m[t].daily_returns) >= 1 =>
            LET dd == m[t].drawdown
                lowest == result[t]["max_drawdown"]
                latest == result[t]["current_drawdown"]
            IN  /\ Len(dd) = Len(m[t].daily_returns)
                /\ \A i \in 1..Len(dd) : Defined(dd[i]) /\ dd[i].n <= 0
                /\ \E i \in 1..Len(dd) : lowest = dd[i]
                /\ \A i \in 1..Len(dd) : ~Above(lowest, dd[i])
                /\ latest = dd[Len(dd)]
                /\ ~Above(lowest, latest) /\ latest.n <= 0

C9_Witness ==
    \E t \in Calls :
        /\ pc[t] = "returned"
        /\ Reported(t)
        /\ Above(result[t]["current_drawdown"], result[t]["max_drawdown"])
        /\ result[t]["current_drawdown"].n < 0

\* the sum of s[lo..hi], by halving
RECURSIVE WindowSum(_, _, _)
WindowSum(s, lo, hi) ==
    IF lo = hi THEN s[lo]
    ELSE WindowSum(s, lo, (lo + hi) \div 2) + WindowSum(s, (lo + hi) \div 2 + 1, hi)

\* the w-bar average plotted at (1-based) bar i is the arithmetic mean of the
\* closes of bars i-w+1..i, and is undefined (NaN) exactly below bar w
IsTrailingMean(close, avg, w) ==
    /\ Len(avg) = Len(close)
    /\ \A i \in 1..Len(close) :
          IF i >= w
          THEN /\ Defined(avg[i])
               /\ avg[i].n * w = WindowSum(close, i - w + 1, i) * avg[i].d
          ELSE avg[i] = NaN

PriceChartDrawn(t) == pc[t] = "savefig" /\ chart[t] = 1

\* C10: the 50-day moving average at 0-based index i is the mean of the closes
\* at [i-49, i] and is defined exactly for i >= 49 (undefined everywhere on a
\* series of fewer than 50 bars, defined from index 49 on otherwise); likewise
\* the 200-day average; the reported values are the averages at the last bar.
C10_MovingAverages ==
    \A t \in Calls :
        /\ PriceChartDrawn(t) =>
              /\ lines[t].close = hist[t]
              /\ IsTrailingMean(hist[t], lines[t].ma_50, 50)
              /\ IsTrailingMean(hist[t], lines[t].ma_200, 200)
              /\ result[t]["50_day_ma"] = lines[t].ma_50[Len(hist[t])]
              /\ result[t]["200_day_ma"] = lines[t].ma_200[Len(hist[t])]
        /\ Computed(t) /\ Len(hist[t]) < 50 => m[t].ma_50 = NaN
        /\ Computed(t) /\ Len(hist[t]) < 200 => m[t].ma_200 = NaN

C10_Witness ==
    \E t \in Calls :
        /\ PriceChartDrawn(t)
        /\ Len(hist[t]) > 200
        /\ lines[t].ma_50[49] = NaN /\ Defined(lines[t].ma_50[50])
        /\ lines[t].ma_200[199] = NaN /\ Defined(lines[t].ma_200[200])
        /\ lines[t].ma_50[Len(hist[t])] # lines[t].ma_200[Len(hist[t])]

\* ---------------------------------------------- claims: concurrent calls

\* what call t returns when it runs alone and every write succeeds
ResultAlone(t) ==
    ResultDict(t) @@ [k \in {ChartKey[c] : c \in 1..NumCharts} |->
                         ChartPath(Ticker(t),
                                   CHOOSE c \in 1..NumCharts : ChartKey[c] = k)]

\* C6: two calls for different tickers running as threads of one process are
\* safe under every interleaving: each chart file holds exactly what its own
\* call drew for that chart, nothing a call draws lands on a figure the other
\* call opened, and each call returns what it returns when run alone.
C6_ConcurrentCallsIsolated ==
    /\ \A t \in Calls, c \in 1..NumCharts :
          files[ChartPath(Ticker(t), c)].written =>
              files[ChartPath(Ticker(t), c)].art = {Mark(t, c)}
    /\ \A i \in 1..Len(figs) :
          \A mark \in figs[i].art : mark[1] = Ticker(figs[i].id[1])
    /\ \A t \in Calls :
          pc[t] = "returned" /\ hist[t] # <<>> => result[t] = ResultAlone(t)

\* ------------------------------------------------ claims: year-to-date change

\* the positions of the bars dated on or after January 1
InYear(t) == {i \in 1..Len(hist[t]) : index[t][i] >= 0}
FirstInYear(t) == CHOOSE i \in InYear(t) : \A j \in InYear(t) : i <= j
LastInYear(t) == CHOOSE i \in InYear(t) : \A j \in InYear(t) : j <= i

\* C11: with S the bars dated on or after January 1 of the year of the call,
\* the two year-to-date values are undefined (NaN) when S is empty; otherwise
\* the price change is the last close of S minus its first close and the
\* percent change is that difference over the first close of S, times 100.
\* The bars before January 1 have no influence: the same call on S alone gives
\* the same two values.  The result record carries the two values unchanged.
C11_YearToDate ==
    Computed(1) =>
        /\ IF InYear(1) = {}
           THEN m[1].price_change = NaN /\ m[1].percent_change = NaN
           ELSE LET first == hist[1][FirstInYear(1)]
                    last == hist[1][LastInYear(1)]
                IN  /\ m[1].price_change = Rat(last - first, 1)
                    /\ m[1].percent_change = Rat((last - first) * 100, first)
        /\ LET kept == Cardinality(InYear(1))
               dropped == Len(hist[1]) - kept
               alone == YtdChange(SubSeq(index[1], dropped + 1, Len(index[1])),
                                  SubSeq(hist[1], dropped + 1, Len(hist[1])))
           IN  /\ m[1].price_change = alone.price_change
               /\ m[1].percent_change = alone.percent_change
        /\ Reported(1) =>
               /\ result[1]["ytd_price_change"] = m[1].price_change
               /\ result[1]["ytd_percent_change"] = m[1].percent_change

\* a result whose year starts on the second of three bars, the first bar
\* having another close: 3 before January 1, then 1 and 2 give +1 and +100 %
C11_Witness ==
    /\ pc[1] = "returned"
    /\ hist[1] = <<3, 1, 2>>
    /\ index[1] = <<-1, 0, 1>>
    /\ result[1]["ytd_price_change"] = Rat(1, 1)
    /\ result[1]["ytd_percent_change"] = Rat(100, 1)

\* a result of a series with no bar in the year: both values undefined
C11_EmptySliceReached ==
    /\ pc[1] = "returned"
    /\ Len(hist[1]) = 2
    /\ InYear(1) = {}
    /\ result[1]["ytd_price_change"] = NaN

\* ------------------------------------------------ claims: the chart writes

Written(t, c) == files[ChartPath(Ticker(t), c)].written
WriteFailed(t) == pc[t] = "raised" /\ exc[t] = "OSError"
\* the call has handed a result record (not the error record) to its caller
ReturnedRecord(t) == pc[t] = "returned" /\ "error" \notin DOMAIN result[t]

\* C12: the charts are written in the order stockprice, volatility, drawdown,
\* sharpe_ratio, dashboard: a chart is on disk only if all charts before it
\* are.  When the write of chart k fails the call ends with the exception:
\* charts 1..k-1 are on disk, charts k..5 are not and never will be (the call
\* takes no further step), and the caller gets no result record.  A result
\* record is returned only with all five charts on disk, and then it holds
\* the five chart paths.
C12_FirstFailedWriteAborts ==
    /\ ChartKind = <<"stockprice", "volatility", "drawdown", "sharpe_ratio",
                     "dashboard">>
    /\ \A c \in 1..NumCharts :
           Written(1, c) => \A b \in 1..(c - 1) : Written(1, b)
    /\ WriteFailed(1) =>
           /\ \A c \in 1..NumCharts : Written(1, c) <=> c < chart[1]
           /\ ~ReturnedRecord(1)
           /\ \A t \in Calls : ~ENABLED Savefig(t)
    /\ ReturnedRecord(1) =>
           /\ exc[1] = ""
           /\ \A c \in 1..NumCharts :
                  /\ Written(1, c)
                  /\ ChartKey[c] \in DOMAIN result[1]
                  /\ result[1][ChartKey[c]] = ChartPath(Ticker(1), c)

\* the write of the third chart failed after two charts were written
C12_Witness ==
    /\ WriteFailed(1)
    /\ chart[1] = 3
    /\ Written(1, 1) /\ Written(1, 2)
    /\ ~Written(1, 3) /\ ~Written(1, 4) /\ ~Written(1, 5)
    /\ "current_price" \in DOMAIN result[1]

\* ------------------------------------------------ claims: the drawdown curve

\* the highest close among the first i bars
PeakClose(close, i) ==
    CHOOSE p \in {close[j] : j \in 1..i} : \A j \in 1..i : close[j] <= p

\* C13: the drawdown sequence has one value per bar of the price series, and
\* at every bar it is (close - highest close so far) / highest close so far,
\* the highest close taken over all bars from the first; so a close that
\* falls from the first bar to the second gives a drawdown below zero at the
\* second bar.  (The drawdown Series of the code is labelled by the bars from
\* the second on: its value at bar i is drawdown[i - 1].)
C13_DrawdownFromFirstBar ==
    Computed(1) =>
        LET close == hist[1]
            dd == m[1].drawdown
        IN  /\ \A i \in 2..Len(close) :
                   /\ i - 1 \in DOMAIN dd
                   /\ dd[i - 1] = Rat(close[i] - PeakClose(close, i),
                                      PeakClose(close, i))
            /\ Len(close) >= 2 /\ close[2] < close[1] => dd[1].n < 0
            /\ Len(dd) = Len(close)

\* ------------------------------------------------ claims: the call tracker

\* C14: once every started call of an agent has ended, the agent's calls
\* field is the number of start_call invocations and its success_rate is the
\* number of end_call invocations with success=True over calls, a value
\* between 0 and 1.
C14_TrackerCounts ==
    \A name \in DOMAIN metrics :
        name \notin pending =>
            /\ metrics[name].calls = started[name]
            /\ metrics[name].success_rate =
                   Rat(succeeded[name], metrics[name].calls)
            /\ Ge(metrics[name].success_rate, Rat(0, 1))
            /\ Le(metrics[name].success_rate, Rat(1, 1))

=============================================================================
